---- MODULE Spec2Model ----
(***************************************************************************)
(* Model of etl.py: the Sparkify batch job that reads the song catalog and *)
(* the activity log and writes five tables.                                *)
(*                                                                         *)
(* A DataFrame is a bag (multiset) of rows; a row is a record whose fields *)
(* are the columns.  Every transformation of the job is a bag operator.    *)
(* Choices the engine leaves open are nondeterministic: the row that       *)
(* survives drop_duplicates(subset=...) and the partition and position     *)
(* that monotonically_increasing_id sees for each row.                     *)
(*                                                                         *)
(* ts is an integer number of milliseconds since the epoch.  A timestamp   *)
(* is [sec, micros]: whole seconds since the epoch and the microseconds    *)
(* within the second.  The session and worker time zone is UTC.  The ts    *)
(* values of the inputs are below 2^31, the range of the checker's         *)
(* integers (instants of January 1970).                                    *)
(* A songplay_id is [partition, record]: the engine's 64-bit value is      *)
(* partition * 2^33 + record, and the pair determines it.                  *)
(***************************************************************************)
EXTENDS Integers, FiniteSets, Bags, TLC

VARIABLES song_data, log_data,
          songs_table, artists_table, users_table, time_table, songplays_table,
          df, song_df, pc, failed_at, written, run, prev

vars == <<song_data, log_data,
          songs_table, artists_table, users_table, time_table, songplays_table,
          df, song_df, pc, failed_at, written, run, prev>>

tables == <<songs_table, artists_table, users_table, time_table, songplays_table>>

\* ------------------------------------------------------------------ bounds
MaxSongs == 2
MaxLogs == 2
NumPartitions == 2

\* ------------------------------------------------------- dataframe algebra
\* df.select(f): BagOfAll(f, df), the bag of f(r) with multiplicities added up

\* df.distinct()
Distinct(B) == SetToBag(BagToSet(B))

\* df.drop_duplicates(subset=[col]): every table that keeps exactly one row,
\* any one, of each group of rows with the same value of col
DropDuplicates(B, col) ==
    LET keys == {r[col] : r \in DOMAIN B}
        picks == {f \in [keys -> DOMAIN B] : \A k \in keys : f[k][col] = k}
    IN  {SetToBag({f[k] : k \in keys}) : f \in picks}

\* ------------------------------------------------------------ calendar
\* Proleptic Gregorian calendar of a day number (days since 1970-01-01).
CivilFromDays(days) ==
    LET z == days + 719468
        era == z \div 146097
        doe == z - era * 146097
        yoe == (doe - doe \div 1460 + doe \div 36524 - doe \div 146096) \div 365
        doy == doe - (365 * yoe + yoe \div 4 - yoe \div 100)
        mp == (5 * doy + 2) \div 153
        d == doy - (153 * mp + 2) \div 5 + 1
        m == IF mp < 10 THEN mp + 3 ELSE mp - 9
        y == yoe + era * 400 + (IF m <= 2 THEN 1 ELSE 0)
    IN  [year |-> y, month |-> m, day |-> d]

DaysFromCivil(y0, m, d) ==
    LET y == IF m <= 2 THEN y0 - 1 ELSE y0
        era == y \div 400
        yoe == y - era * 400
        doy == (153 * (IF m > 2 THEN m - 3 ELSE m + 9) + 2) \div 5 + d - 1
        doe == yoe * 365 + yoe \div 4 - yoe \div 100 + doy
    IN  era * 146097 + doe - 719468

DayNumber(t) == t.sec \div 86400

\* F.hour, F.dayofmonth, F.month, F.year
hour(t) == (t.sec % 86400) \div 3600
dayofmonth(t) == CivilFromDays(DayNumber(t)).day
month(t) == CivilFromDays(DayNumber(t)).month
year(t) == CivilFromDays(DayNumber(t)).year

\* F.dayofweek: 1 = Sunday ... 7 = Saturday (1970-01-01 was a Thursday)
dayofweek(t) == ((DayNumber(t) + 4) % 7) + 1

\* F.weekofyear: ISO 8601 week, the week of the year that holds the
\* Thursday of the date's Monday-to-Sunday week
weekofyear(t) ==
    LET d == DayNumber(t)
        thursday == d - ((d + 3) % 7) + 3
        y == CivilFromDays(thursday).year
    IN  (thursday - DaysFromCivil(y, 1, 1)) \div 7 + 1

\* datetime.fromtimestamp(x//1000): whole seconds only
get_timestamp_floor(x) == [sec |-> x \div 1000, micros |-> 0]

\* get_timestamp: datetime.fromtimestamp(x/1000) stored as TimestampType
get_timestamp(x) == [sec |-> x \div 1000, micros |-> (x % 1000) * 1000]

\* get_datetime: datetime.fromtimestamp(x/1000).strftime('%y-%m-%d')
get_datetime(x) ==
    LET c == CivilFromDays(DayNumber(get_timestamp(x)))
    IN  <<c.year % 100, c.month, c.day>>

\* ------------------------------------------------------------------ input
\* One line of song-data/*/*/*.json
SongRecord(id, t, aid, an, dur) ==
    [song_id |-> id, title |-> t, artist_id |-> aid, year |-> 2000,
     duration |-> dur, artist_name |-> an, artist_location |-> "Tokyo",
     artist_latitude |-> 35, artist_longitude |-> 139]

\* One line of log-data
LogRecord(pg, sg, ar, t, uid, lv, sid) ==
    [userId |-> uid, firstName |-> "Ada", lastName |-> "Lee", gender |-> "F",
     level |-> lv, page |-> pg, song |-> sg, artist |-> ar, ts |-> t,
     sessionId |-> sid, location |-> "Osaka", userAgent |-> "Mozilla"]

\* The catalog lines an input is drawn from: a song listed twice with
\* different durations, an artist id under two names, and one title and
\* artist name under two song and artist ids.
SongUniverse ==
    {SongRecord("S1", "Song A", "P1", "Artist A", 200),
     SongRecord("S1", "Song A", "P1", "Artist A", 201),
     SongRecord("S2", "Song B", "P1", "Artist B", 200),
     SongRecord("S3", "Song A", "P2", "Artist A", 200)}

\* The log lines an input is drawn from: two plays of catalog songs by one
\* user at two levels, a page view that names a catalog song, and a play of
\* a title by an artist the catalog does not pair it with.
LogUniverse ==
    {LogRecord("NextSong", "Song A", "Artist A", 1000000123, "U1", "free", 5),
     LogRecord("NextSong", "Song B", "Artist B", 2000000000, "U1", "paid", 6),
     LogRecord("Home", "Song A", "Artist A", 1500000000, "U3", "free", 7),
     LogRecord("NextSong", "Song A", "Artist B", 1000000123, "U2", "free", 8)}

\* spark.read.json(path): the lines under the path, as a bag of at most n rows
ReadJson(U, n) ==
    UNION {{[u \in {f[i] : i \in 1..k} |-> Cardinality({i \in 1..k : f[i] = u})]
              : f \in [1..k -> U]} : k \in 0..n}

\* ------------------------------------------------------------ process_song_data
SongsRow(r) ==
    [song_id |-> r.song_id, title |-> r.title, artist_id |-> r.artist_id,
     year |-> r.year, duration |-> r.duration]

ArtistsRow(r) ==
    [artist_id |-> r.artist_id, artist_name |-> r.artist_name,
     artist_location |-> r.artist_location,
     artist_latitude |-> r.artist_latitude,
     artist_longitude |-> r.artist_longitude]


\* lines 38-39 without the drop_duplicates
SongsTablesNoDedup(d) == {BagOfAll(SongsRow, d)}

\* lines 38-39 with subset=['title']
SongsTablesByTitle(d) == DropDuplicates(BagOfAll(SongsRow, d), "title")

\* the tables lines 38-39 can produce from df
SongsTables(d) == DropDuplicates(BagOfAll(SongsRow, d), "song_id")

\* the tables lines 45-46 can produce from df
ArtistsTables(d) == DropDuplicates(BagOfAll(ArtistsRow, d), "artist_id")

\* mode('append'): the new rows are added to the old
Append(old, new) == old (+) new

\* .write.mode('overwrite').parquet(path): the new rows replace the old
Overwrite(old, new) == new

\* ------------------------------------------------------------ process_log_data
IsNextSong(r) == r.page = "NextSong"

\* no filter on page
NoFilter(d) == d

\* df.where('page="NextSong"')
FilterNextSong(d) == [r \in {x \in DOMAIN d : IsNextSong(x)} |-> d[r]]

UsersRow(r) ==
    [userId |-> r.userId, firstName |-> r.firstName, lastName |-> r.lastName,
     gender |-> r.gender, level |-> r.level]

\* the tables line 71 can produce from df
UsersTables(d) == DropDuplicates(BagOfAll(UsersRow, d), "userId")

\* the two withColumn calls of lines 78 and 82
AddTimestamp(r) ==
    r @@ [timestamp |-> get_timestamp(r.ts), datetime |-> get_datetime(r.ts)]

TimeRow(r) ==
    [start_time |-> r.timestamp,
     hour |-> hour(r.timestamp),
     day |-> dayofmonth(r.timestamp),
     week |-> weekofyear(r.timestamp),
     month |-> month(r.timestamp),
     year |-> year(r.timestamp),
     weekday |-> dayofweek(r.timestamp)]

\* lines 85-91 without the distinct
TimeTableNoDistinct(d) == BagOfAll(TimeRow, d)

\* lines 85-92
TimeTable(d) == Distinct(BagOfAll(TimeRow, d))

\* a join on the title alone
JoinCondTitleOnly(l, s) == l.song = s.title

\* (df.song == song_df.title) & (df.artist == song_df.artist_name)
JoinCond(l, s) == l.song = s.title /\ l.artist = s.artist_name

\* line 104, df.join(song_df, cond, 'inner'): one merged row per matching
\* pair of rows.  The two sides have no column name in common, so a merged
\* row determines the pair it comes from.
StageDf(d, sd) ==
    LET pairs == {p \in (DOMAIN d) \X (DOMAIN sd) : JoinCond(p[1], p[2])}
        rows == {p[1] @@ p[2] : p \in pairs}
    IN  [j \in rows |->
           LET p == CHOOSE q \in pairs : q[1] @@ q[2] = j
           IN  d[p[1]] * sd[p[2]]]

\* the select of lines 107-115 and the two withColumn calls of 116-117
SongplaysRow(j) ==
    [start_time |-> j.timestamp, user_id |-> j.userId, level |-> j.level,
     song_id |-> j.song_id, artist_id |-> j.artist_id,
     session_id |-> j.sessionId, location |-> j.location,
     user_agent |-> j.userAgent,
     year |-> year(j.timestamp), month |-> month(j.timestamp)]

\* an id that is the position within the partition only
RowIdRecordOnly(p, record) == [partition |-> 0, record |-> record]

\* The value of F.monotonically_increasing_id() for the row at position
\* record of partition p: p in the upper 31 bits, record in the lower 33.
RowId(p, record) == [partition |-> p, record |-> record]

\* withColumn('songplay_id', F.monotonically_increasing_id()): the tables it
\* can produce from the bag B.  Each row instance lands in some partition
\* at some position; positions within a partition count from 0.
WithSongplayId(B) ==
    LET inst == {x \in (DOMAIN B) \X (1..BagCardinality(B)) : x[2] <= B[x[1]]}
        n == Cardinality(inst)
        orders == {o \in [inst -> 1..n] : \A x, y \in inst : o[x] = o[y] => x = y}
        parts == [inst -> 0..(NumPartitions - 1)]
        Rec(o, pt, x) == Cardinality({y \in inst : pt[y] = pt[x] /\ o[y] < o[x]})
        Tagged(o, pt) ==
            LET row(x) == x[1] @@ [songplay_id |-> RowId(pt[x], Rec(o, pt, x))]
            IN  BagOfAll(row, SetToBag(inst))
    IN  {Tagged(o, pt) : o \in orders, pt \in parts}

\* lines 104-118
SongplaysTables(d, sd) == WithSongplayId(BagOfAll(SongplaysRow, Distinct(StageDf(d, sd))))

\* main calling process_log_data before process_song_data
AfterLogFirst(p) ==
    CASE p = "main" -> "log_read"
      [] p = "log_read" -> "users_write"
      [] p = "users_write" -> "add_timestamp"
      [] p = "add_timestamp" -> "time_write"
      [] p = "time_write" -> "song_reread"
      [] p = "song_reread" -> "songplays_write"
      [] p = "songplays_write" -> "song_read"
      [] p = "song_read" -> "songs_write"
      [] p = "songs_write" -> "artists_write"
      [] p = "artists_write" -> "done"

\* ------------------------------------------------------------------- main
\* The statements of one run of main, in program order: the label of the
\* statement that follows p.
After(p) ==
    CASE p = "main" -> "song_read"
      [] p = "song_read" -> "songs_write"
      [] p = "songs_write" -> "artists_write"
      [] p = "artists_write" -> "log_read"
      [] p = "log_read" -> "users_write"
      [] p = "users_write" -> "add_timestamp"
      [] p = "add_timestamp" -> "time_write"
      [] p = "time_write" -> "song_reread"
      [] p = "song_reread" -> "songplays_write"
      [] p = "songplays_write" -> "done"

SongStage == {"song_read", "songs_write", "artists_write"}
LogStage == {"log_read", "users_write", "add_timestamp", "time_write",
             "song_reread", "songplays_write"}

\* What the output location holds before the job first runs: nothing, or
\* the tables of an earlier run over other data.
PriorOutput ==
    LET t == get_timestamp(0)
        old == [songs |-> SetToBag({SongsRow(SongRecord("S0", "Song 0", "P0", "Artist 0", 100))}),
                artists |-> SetToBag({ArtistsRow(SongRecord("S0", "Song 0", "P0", "Artist 0", 100))}),
                users |-> SetToBag({UsersRow(LogRecord("NextSong", "Song 0", "Artist 0", 0, "U0", "free", 1))}),
                time |-> SetToBag({TimeRow([timestamp |-> t])}),
                songplays |-> SetToBag({[start_time |-> t, user_id |-> "U0", level |-> "free",
                                         song_id |-> "S0", artist_id |-> "P0", session_id |-> 1,
                                         location |-> "Osaka", user_agent |-> "Mozilla",
                                         year |-> year(t), month |-> month(t),
                                         songplay_id |-> RowId(0, 0)]})]
        none == [songs |-> EmptyBag, artists |-> EmptyBag, users |-> EmptyBag,
                 time |-> EmptyBag, songplays |-> EmptyBag]
    IN  {none, old}

Init ==
    /\ song_data \in ReadJson(SongUniverse, MaxSongs)
    /\ log_data \in ReadJson(LogUniverse, MaxLogs)
    /\ \E o \in PriorOutput :
         /\ songs_table = o.songs
         /\ artists_table = o.artists
         /\ users_table = o.users
         /\ time_table = o.time
         /\ songplays_table = o.songplays
    /\ df = EmptyBag
    /\ song_df = EmptyBag
    /\ pc = "main"
    /\ failed_at = "none"
    /\ written = {}
    /\ run = 1
    /\ prev = [songs |-> EmptyBag, artists |-> EmptyBag, users |-> EmptyBag,
               time |-> EmptyBag]

\* main, lines 125-136: session and configuration
Main ==
    /\ pc = "main"
    /\ pc' = After("main")
    /\ UNCHANGED <<song_data, log_data, tables, df, song_df, failed_at, written, run, prev>>

\* process_song_data, line 35
ReadSongData ==
    /\ pc = "song_read"
    /\ df' = song_data
    /\ pc' = After("song_read")
    /\ UNCHANGED <<song_data, log_data, tables, song_df, failed_at, written, run, prev>>

\* process_song_data, lines 38-42
WriteSongsTable ==
    /\ pc = "songs_write"
    /\ \E t \in SongsTables(df) : songs_table' = Overwrite(songs_table, t)
    /\ written' = written \cup {"songs_table"}
    /\ pc' = After("songs_write")
    /\ UNCHANGED <<song_data, log_data, artists_table, users_table, time_table,
                   songplays_table, df, song_df, failed_at, run, prev>>

\* process_song_data, lines 45-49, and the return
WriteArtistsTable ==
    /\ pc = "artists_write"
    /\ \E t \in ArtistsTables(df) : artists_table' = Overwrite(artists_table, t)
    /\ written' = written \cup {"artists_table"}
    /\ df' = EmptyBag
    /\ pc' = After("artists_write")
    /\ UNCHANGED <<song_data, log_data, songs_table, users_table, time_table,
                   songplays_table, song_df, failed_at, run, prev>>

\* process_log_data, lines 65-68
ReadLogData ==
    /\ pc = "log_read"
    /\ df' = FilterNextSong(log_data)
    /\ pc' = After("log_read")
    /\ UNCHANGED <<song_data, log_data, tables, song_df, failed_at, written, run, prev>>

\* process_log_data, lines 71-74
WriteUsersTable ==
    /\ pc = "users_write"
    /\ \E t \in UsersTables(df) : users_table' = Overwrite(users_table, t)
    /\ written' = written \cup {"users_table"}
    /\ pc' = After("users_write")
    /\ UNCHANGED <<song_data, log_data, songs_table, artists_table, time_table,
                   songplays_table, df, song_df, failed_at, run, prev>>

\* process_log_data, lines 77-82
AddTimestampColumns ==
    /\ pc = "add_timestamp"
    /\ df' = BagOfAll(AddTimestamp, df)
    /\ pc' = After("add_timestamp")
    /\ UNCHANGED <<song_data, log_data, tables, song_df, failed_at, written, run, prev>>

\* process_log_data, lines 85-95
WriteTimeTable ==
    /\ pc = "time_write"
    /\ time_table' = Overwrite(time_table, TimeTable(df))
    /\ written' = written \cup {"time_table"}
    /\ pc' = After("time_write")
    /\ UNCHANGED <<song_data, log_data, songs_table, artists_table, users_table,
                   songplays_table, df, song_df, failed_at, run, prev>>

\* process_log_data, lines 98-101
RereadSongData ==
    /\ pc = "song_reread"
    /\ song_df' = song_data
    /\ pc' = After("song_reread")
    /\ UNCHANGED <<song_data, log_data, tables, df, failed_at, written, run, prev>>

\* process_log_data, lines 104-121, and the return
WriteSongplaysTable ==
    /\ pc = "songplays_write"
    /\ \E t \in SongplaysTables(df, song_df) :
         songplays_table' = Overwrite(songplays_table, t)
    /\ written' = written \cup {"songplays_table"}
    /\ df' = EmptyBag
    /\ song_df' = EmptyBag
    /\ pc' = After("songplays_write")
    /\ UNCHANGED <<song_data, log_data, songs_table, artists_table, users_table,
                   time_table, failed_at, run, prev>>

\* The job (lines 142-143) is run, and then run once more.
Runs == {1, 2}

\* A statement raises (configuration, connectivity, schema): nothing catches
\* it, so main ends there.
Fail ==
    /\ pc \notin {"done", "failed"}
    /\ failed_at' = pc
    /\ pc' = "failed"
    /\ UNCHANGED <<song_data, log_data, tables, df, song_df, written, run, prev>>

\* The job is started again on the same input.
Rerun ==
    /\ pc = "done"
    /\ run + 1 \in Runs
    /\ run' = run + 1
    /\ prev' = [songs |-> songs_table, artists |-> artists_table,
                users |-> users_table, time |-> time_table]
    /\ written' = {}
    /\ pc' = "main"
    /\ UNCHANGED <<song_data, log_data, tables, df, song_df, failed_at>>

Next ==
    \/ Main
    \/ ReadSongData
    \/ WriteSongsTable
    \/ WriteArtistsTable
    \/ ReadLogData
    \/ WriteUsersTable
    \/ AddTimestampColumns
    \/ WriteTimeTable
    \/ RereadSongData
    \/ WriteSongplaysTable
    \/ Fail
    \/ Rerun

Spec == Init /\ [][Next]_vars

\* ================================================================== claims
\* No row occurs twice in table T and no two rows of T have the same value
\* in column col.
UniqueKey(T, col) ==
    /\ \A r \in DOMAIN T : T[r] = 1
    /\ \A r1, r2 \in DOMAIN T : r1[col] = r2[col] => r1 = r2

\* The log lines that are plays, and the (log line, catalog line) pairs
\* whose song and artist are the catalog line's title and artist_name.
Plays == {a \in DOMAIN log_data : a.page = "NextSong"}
Matched == {q \in Plays \X (DOMAIN song_data) :
              q[1].song = q[2].title /\ q[1].artist = q[2].artist_name}

\* The timestamp of ts milliseconds since the epoch.
InstantOf(ts) == [sec |-> ts \div 1000, micros |-> (ts % 1000) * 1000]

\* Row r of songplays_table carries the columns of log line a and catalog line c.
FactOf(r, a, c) ==
    /\ r.start_time = InstantOf(a.ts)
    /\ r.user_id = a.userId
    /\ r.level = a.level
    /\ r.song_id = c.song_id
    /\ r.artist_id = c.artist_id
    /\ r.session_id = a.sessionId
    /\ r.location = a.location
    /\ r.user_agent = a.userAgent

\* Rows r1 and r2 of songplays_table agree on the eight fact columns.
SameFact(r1, r2) ==
    /\ r1.start_time = r2.start_time
    /\ r1.user_id = r2.user_id
    /\ r1.level = r2.level
    /\ r1.song_id = r2.song_id
    /\ r1.artist_id = r2.artist_id
    /\ r1.session_id = r2.session_id
    /\ r1.location = r2.location
    /\ r1.user_agent = r2.user_agent

\* C1: once process_song_data has written them, songs_table has no two rows
\* with the same song_id and artists_table no two rows with the same artist_id.
C1_UniquePrimaryKeys ==
    /\ "songs_table" \in written => UniqueKey(songs_table, "song_id")
    /\ "artists_table" \in written => UniqueKey(artists_table, "artist_id")

\* C1 witness: both tables are written from a catalog that lists one song_id
\* and one artist_id in two different lines.
C1_Witness ==
    /\ {"songs_table", "artists_table"} \subseteq written
    /\ \E c1, c2 \in DOMAIN song_data :
         c1 # c2 /\ c1.song_id = c2.song_id /\ c1.artist_id = c2.artist_id

\* C2: after process_log_data completes, the rows of songplays_table are, one
\* for one, the pairs of a NextSong log line and a catalog line with
\* song = title and artist = artist_name; every row carries the columns of
\* such a pair, so a log line failing either condition yields no row.
C2_FactRowsAreMatchedPlays ==
    pc = "done" =>
      /\ BagCardinality(songplays_table) = Cardinality(Matched)
      /\ \A r \in DOMAIN songplays_table : \E q \in Matched : FactOf(r, q[1], q[2])
      /\ \A q \in Matched : \E r \in DOMAIN songplays_table : FactOf(r, q[1], q[2])

\* C2 witness: a completed run with a fact row, a page view and a play that
\* matches no catalog line.
C2_Witness ==
    /\ pc = "done"
    /\ songplays_table # EmptyBag
    /\ \E a \in DOMAIN log_data :
         a.page = "NextSong" /\ \A c \in DOMAIN song_data : <<a, c>> \notin Matched

\* C3: with one catalog line and one matching NextSong log line, a full run
\* leaves exactly one songplays row, with the catalog line's song_id and
\* artist_id, the log line's userId and sessionId, and the instant of ts.
C3_SingleMatchScenario ==
    \A a \in DOMAIN log_data : \A c \in DOMAIN song_data :
      (/\ pc = "done"
       /\ log_data = SetToBag({a})
       /\ song_data = SetToBag({c})
       /\ <<a, c>> \in Matched)
      => /\ BagCardinality(songplays_table) = 1
         /\ \A r \in DOMAIN songplays_table :
              /\ r.song_id = c.song_id
              /\ r.artist_id = c.artist_id
              /\ r.user_id = a.userId
              /\ r.session_id = a.sessionId
              /\ r.start_time = InstantOf(a.ts)

\* C3 witness: the scenario's run is complete, for a ts that is not a whole
\* number of seconds.
C3_Witness ==
    /\ pc = "done"
    /\ BagCardinality(log_data) = 1
    /\ BagCardinality(song_data) = 1
    /\ Cardinality(Matched) = 1
    /\ \E a \in DOMAIN log_data : a.ts % 1000 # 0

\* C4: within one run the songplay_id values of songplays_table are pairwise
\* distinct.
C4_DistinctSongplayIds ==
    "songplays_table" \in written =>
      /\ \A r \in DOMAIN songplays_table : songplays_table[r] = 1
      /\ \A r1, r2 \in DOMAIN songplays_table :
           r1.songplay_id = r2.songplay_id => r1 = r2

\* C4 witness: a written fact table with two rows in two partitions.
C4_Witness ==
    /\ "songplays_table" \in written
    /\ \E r1, r2 \in DOMAIN songplays_table :
         r1.songplay_id.partition # r2.songplay_id.partition

\* C5: a log line whose page is not NextSong contributes no row to
\* users_table, time_table or songplays_table: every row of each comes from
\* a NextSong line.
C5_OnlyPlaysContribute ==
    pc = "done" =>
      /\ \A r \in DOMAIN users_table : \E a \in Plays :
           /\ r.userId = a.userId
           /\ r.firstName = a.firstName
           /\ r.lastName = a.lastName
           /\ r.gender = a.gender
           /\ r.level = a.level
      /\ \A r \in DOMAIN time_table : \E a \in Plays : r.start_time = InstantOf(a.ts)
      /\ \A r \in DOMAIN songplays_table : \E a \in Plays :
           /\ r.start_time = InstantOf(a.ts)
           /\ r.user_id = a.userId
           /\ r.session_id = a.sessionId

\* C5 witness: a completed run over a log with a page view and a play.
C5_Witness ==
    /\ pc = "done"
    /\ users_table # EmptyBag
    /\ \E a \in DOMAIN log_data : a.page # "NextSong"

\* C6: once written, time_table has no two rows with the same start_time
\* (the other columns are determined by start_time, and no row is repeated).
C6_UniqueStartTime ==
    "time_table" \in written =>
      /\ \A r \in DOMAIN time_table : time_table[r] = 1
      /\ \A r1, r2 \in DOMAIN time_table :
           r1.start_time = r2.start_time => r1 = r2

\* C6 witness: time_table is written from two different plays at the same
\* ts and holds one row for them.
C6_Witness ==
    /\ "time_table" \in written
    /\ BagCardinality(time_table) = 1
    /\ \E a1, a2 \in Plays : a1 # a2 /\ a1.ts = a2.ts

\* C7 as stated: after the second of two runs on unchanged input,
\* songs_table, artists_table, users_table and time_table are what they were
\* after the first.
C7_SameContentsAfterRerun ==
    (pc = "done" /\ run = 2) =>
      /\ songs_table = prev.songs
      /\ artists_table = prev.artists
      /\ users_table = prev.users
      /\ time_table = prev.time

\* Table T holds one row for each key of the rows in cand, each row one of
\* cand, as does the table P of the run before; a key with a single
\* candidate row has the same row in both.
SameUpToTieBreak(T, P, cand, col) ==
    /\ UniqueKey(T, col)
    /\ DOMAIN T \subseteq cand
    /\ {r[col] : r \in DOMAIN T} = {r[col] : r \in cand}
    /\ {r[col] : r \in DOMAIN P} = {r[col] : r \in DOMAIN T}
    /\ \A r \in DOMAIN T :
         Cardinality({x \in cand : x[col] = r[col]}) = 1 => r \in DOMAIN P

\* C7 amended: after the second run time_table is what it was after the
\* first; songs_table, artists_table and users_table have the same keys as
\* after the first, one row per key, each row one of the current input's
\* rows for its key and the same row as before when the input has only one
\* row for the key.  Nothing of an earlier write is left.
C7_SameUpToTieBreakAfterRerun ==
    (pc = "done" /\ run = 2) =>
      /\ time_table = prev.time
      /\ \A r \in DOMAIN time_table :
           time_table[r] = 1 /\ \E a \in Plays : r.start_time = InstantOf(a.ts)
      /\ SameUpToTieBreak(songs_table, prev.songs,
                          {[song_id |-> c.song_id, title |-> c.title,
                            artist_id |-> c.artist_id, year |-> c.year,
                            duration |-> c.duration] : c \in DOMAIN song_data},
                          "song_id")
      /\ SameUpToTieBreak(artists_table, prev.artists,
                          {[artist_id |-> c.artist_id, artist_name |-> c.artist_name,
                            artist_location |-> c.artist_location,
                            artist_latitude |-> c.artist_latitude,
                            artist_longitude |-> c.artist_longitude] : c \in DOMAIN song_data},
                          "artist_id")
      /\ SameUpToTieBreak(users_table, prev.users,
                          {[userId |-> a.userId, firstName |-> a.firstName,
                            lastName |-> a.lastName, gender |-> a.gender,
                            level |-> a.level] : a \in Plays},
                          "userId")

\* C7 witness: the second run is complete and kept another row of a
\* duplicated song_id than the first did.
C7_Witness ==
    /\ pc = "done"
    /\ run = 2
    /\ songs_table # prev.songs
    /\ time_table # EmptyBag

\* C8: the stages run in sequence.  users_table, time_table or
\* songplays_table is written only when songs_table and artists_table have
\* been; a statement that raises ends the run, nothing runs after it, and
\* the tables stay as they were when it raised; a failure in
\* process_song_data leaves the three log tables unwritten.
C8_StagesInSequence ==
    [][/\ written' \cap {"users_table", "time_table", "songplays_table"} # {}
            => {"songs_table", "artists_table"} \subseteq written'
       /\ pc # "failed"
       /\ pc' = "failed" => /\ tables' = tables
                            /\ written' = written
       /\ (pc' = "failed" /\ failed_at' \in SongStage)
            => written' \cap {"users_table", "time_table", "songplays_table"} = {}
      ]_vars

\* C8 witness: process_song_data raised after writing songs_table and before
\* writing artists_table; songs_table stays written.
C8_Witness ==
    /\ pc = "failed"
    /\ failed_at = "artists_write"
    /\ written = {"songs_table"}
    /\ songs_table # EmptyBag

\* C9 as stated: songplays_table has no two rows that agree on start_time,
\* user_id, level, song_id, artist_id, session_id, location and user_agent.
C9_DistinctFactColumns ==
    "songplays_table" \in written =>
      /\ \A r \in DOMAIN songplays_table : songplays_table[r] = 1
      /\ \A r1, r2 \in DOMAIN songplays_table : SameFact(r1, r2) => r1 = r2

\* C10: after a completed run every songplays row's song_id is in
\* songs_table, its artist_id in artists_table, its user_id in users_table
\* and its start_time in time_table.
C10_ReferentialIntegrity ==
    pc = "done" =>
      \A r \in DOMAIN songplays_table :
        /\ \E s \in DOMAIN songs_table : s.song_id = r.song_id
        /\ \E s \in DOMAIN artists_table : s.artist_id = r.artist_id
        /\ \E u \in DOMAIN users_table : u.userId = r.user_id
        /\ \E t \in DOMAIN time_table : t.start_time = r.start_time

\* C10 witness: a completed run with fact rows for two song ids that share
\* a title, from a catalog read twice.
C10_Witness ==
    /\ pc = "done"
    /\ \E r1, r2 \in DOMAIN songplays_table : r1.song_id # r2.song_id
    /\ \E c1, c2 \in DOMAIN song_data : c1.title = c2.title /\ c1.song_id # c2.song_id

====
